---- MODULE Spec2Model ----
(***************************************************************************)
(* Scan orchestration of Secure_assess-core: ScanOrchestrator              *)
(* (initiate_scan, get_scan_status, aggregate_results), the scan_results   *)
(* table, the Celery broker and the sast/dast/sca worker tasks.            *)
(*                                                                         *)
(* The database row of a scan is the only shared state.  Every caller and  *)
(* every worker task has its own SQLAlchemy session, so a value a worker   *)
(* has queried is a private copy until its commit writes it back.          *)
(*                                                                         *)
(* Category mapping and scoring: the framework registry                    *)
(* (framework_categories.py) and CategoryCheckRunner (categorize_findings, *)
(* calculate_category_scores, calculate_overall_score,                     *)
(* get_category_recommendations), which a caller runs on its own           *)
(* arguments; ScoreSpec is the specification of those calls.               *)
(***************************************************************************)
EXTENDS Integers, Sequences, FiniteSets, TLC

\* ------------------------------------------------------------------ bounds
\* uuid4 scan ids are drawn fresh per call; the model hands out 1..MaxScans.
MaxScans == 1
\* The broker accepts MaxTasks messages in all; a further send_task raises.
MaxTasks == 2

ScanIds == 1..MaxScans
\* An id no call ever generated (a poll for a scan that does not exist).
UnknownScanId == MaxScans + 1

\* ------------------------------------------------------------------ inputs
\* Rows of the frameworks table (scan_results.framework_id references it).
Frameworks == {1}
FrameworkIds == {1, 7}
\* celery_app.conf.task_default_priority
TaskDefaultPriority == 5
Priorities == {TaskDefaultPriority, 9}
\* The three analysis types initiate_scan tests for, in the order it tests.
ScanTypeOrder == <<"sast", "dast", "sca">>
KnownTypes == {"sast", "dast", "sca"}
\* Requested scan_types lists: empty, single, several, a duplicate, an
\* unrecognised name.
ScanTypeLists ==
  { <<>>, <<"sast">>, <<"sast", "dast">>, <<"dast", "sast", "sca">>,
    <<"sast", "sast">>, <<"sca", "zap">>, <<"zap">> }

Range(f) == {f[i] : i \in DOMAIN f}

VARIABLES
  records,   \* scan_results rows: scan id -> row, for the rows that exist
  calls,     \* initiate_scan calls: scan id -> arguments and position
  tasks,     \* messages sent to the broker, each with its worker's position
  resp,      \* what the step just taken returned or raised to its caller
  run        \* one use of CategoryCheckRunner: its arguments and its returns

vars == <<records, calls, tasks, resp, run>>

NoResp == [op |-> "none"]
\* No CategoryCheckRunner has been constructed.
NoRun == [phase |-> "none"]

\* ScanResult(...) as initiate_scan constructs it.
NewRecord(fw) ==
  [ framework_id |-> fw, status |-> "pending", findings |-> <<>>,
    compliance_score |-> 0, raw_output |-> <<>> ]

\* dict[key] = value
SetKey(d, k, v) == (k :> v) @@ d

\* A call is in flight (pc "try", about to run test number i of the try block)
\* between the uuid4() and its return or raise.
CallActive(s) == s \in DOMAIN calls /\ calls[s].pc = "try"

NextScanId == Cardinality(DOMAIN calls) + 1

Init ==
  /\ records = <<>>
  /\ calls = <<>>
  /\ tasks = <<>>
  /\ resp = NoResp
  /\ run = NoRun

\* initiate_scan on a table without the foreign key: the insert always succeeds.
InitiateScanNoForeignKey(fw, types, prio) ==
  /\ NextScanId \in ScanIds
  /\ \A s \in DOMAIN calls : ~CallActive(s)
  /\ records' = (NextScanId :> NewRecord(fw)) @@ records
  /\ calls' = (NextScanId :> [framework_id |-> fw, scan_types |-> types,
                              priority |-> prio, pc |-> "try", i |-> 1]) @@ calls
  /\ resp' = NoResp
  /\ UNCHANGED tasks
  /\ UNCHANGED run

\* initiate_scan up to the first commit: the row is inserted with status
\* pending; the insert violates the foreign key when the framework is unknown,
\* and the commit raises before the try block is entered.
InitiateScan(fw, types, prio) ==
  /\ NextScanId \in ScanIds
  /\ \A s \in DOMAIN calls : ~CallActive(s)
  /\ LET s == NextScanId IN
       IF fw \in Frameworks
       THEN /\ records' = (s :> NewRecord(fw)) @@ records
            /\ calls' = (s :> [framework_id |-> fw, scan_types |-> types,
                               priority |-> prio, pc |-> "try", i |-> 1]) @@ calls
            /\ resp' = NoResp
       ELSE /\ records' = records
            /\ calls' = (s :> [framework_id |-> fw, scan_types |-> types,
                               priority |-> prio, pc |-> "raised", i |-> 1]) @@ calls
            /\ resp' = [op |-> "initiate_scan", raised |-> "IntegrityError"]
  /\ UNCHANGED tasks
  /\ UNCHANGED run

\* send_task without priority=priority: the broker applies task_default_priority.
NewTaskDefaultPriority(s, t, prio) ==
  [ name |-> t, scan_id |-> s, priority |-> TaskDefaultPriority, pc |-> "queued",
    result |-> 0, snap |-> [findings |-> <<>>, raw_output |-> <<>>] ]

\* The message of one send_task call, with the position of the worker that
\* will run it, the result blob of its scanners (0 until they have run) and
\* the copy of the row its session holds.
NewTask(s, t, prio) ==
  [ name |-> t, scan_id |-> s, priority |-> prio, pc |-> "queued",
    result |-> 0, snap |-> [findings |-> <<>>, raw_output |-> <<>>] ]

\* One `if "<type>" in scan_types: celery_app.send_task(...)` of the try block.
EnqueueStep(s) ==
  /\ CallActive(s)
  /\ calls[s].i \in DOMAIN ScanTypeOrder
  /\ LET t == ScanTypeOrder[calls[s].i] IN
       IF t \in Range(calls[s].scan_types)
       THEN /\ Len(tasks) < MaxTasks
            /\ tasks' = Append(tasks, NewTask(s, t, calls[s].priority))
       ELSE UNCHANGED tasks
  /\ calls' = [calls EXCEPT ![s].i = @ + 1]
  /\ resp' = NoResp
  /\ UNCHANGED records
  /\ UNCHANGED run

\* An except branch that only re-raises, as the workers' does.
EnqueueFailsNoStatus(s) ==
  /\ CallActive(s)
  /\ calls[s].i \in DOMAIN ScanTypeOrder
  /\ ScanTypeOrder[calls[s].i] \in Range(calls[s].scan_types)
  /\ calls' = [calls EXCEPT ![s].pc = "raised"]
  /\ resp' = [op |-> "initiate_scan", raised |-> "DispatchError"]
  /\ UNCHANGED <<records, tasks>>
  /\ UNCHANGED run

\* send_task raises: the except branch commits status failed and re-raises.
EnqueueFails(s) ==
  /\ CallActive(s)
  /\ calls[s].i \in DOMAIN ScanTypeOrder
  /\ ScanTypeOrder[calls[s].i] \in Range(calls[s].scan_types)
  /\ records' = [records EXCEPT ![s].status = "failed"]
  /\ calls' = [calls EXCEPT ![s].pc = "raised"]
  /\ resp' = [op |-> "initiate_scan", raised |-> "DispatchError"]
  /\ UNCHANGED tasks
  /\ UNCHANGED run

\* A commit that writes the whole row as the call's session built it.
CommitInProgressWholeRow(s) ==
  /\ CallActive(s)
  /\ calls[s].i = Len(ScanTypeOrder) + 1
  /\ records' = [records EXCEPT
                   ![s] = [NewRecord(calls[s].framework_id) EXCEPT
                             !.status = "in_progress"]]
  /\ calls' = [calls EXCEPT ![s].pc = "returned"]
  /\ resp' = [op |-> "initiate_scan", returned |-> s]
  /\ UNCHANGED tasks
  /\ UNCHANGED run

\* A return that closes a scan for which nothing was enqueued.
CommitInProgressOrComplete(s) ==
  /\ CallActive(s)
  /\ calls[s].i = Len(ScanTypeOrder) + 1
  /\ records' = [records EXCEPT ![s].status =
                   IF \E k \in DOMAIN tasks : tasks[k].scan_id = s
                   THEN "in_progress" ELSE "complete"]
  /\ calls' = [calls EXCEPT ![s].pc = "returned"]
  /\ resp' = [op |-> "initiate_scan", returned |-> s]
  /\ UNCHANGED tasks
  /\ UNCHANGED run

\* A commit of in_progress placed before the try block's send_task calls.
CommitInProgressEarly(s) ==
  /\ CallActive(s)
  /\ records' = [records EXCEPT ![s].status = "in_progress"]
  /\ calls' = [calls EXCEPT ![s].pc = "returned"]
  /\ resp' = [op |-> "initiate_scan", returned |-> s]
  /\ UNCHANGED tasks
  /\ UNCHANGED run

\* scan_result.status = "in_progress"; commit; return scan_id
CommitInProgress(s) ==
  /\ CallActive(s)
  /\ calls[s].i = Len(ScanTypeOrder) + 1
  /\ records' = [records EXCEPT ![s].status = "in_progress"]
  /\ calls' = [calls EXCEPT ![s].pc = "returned"]
  /\ resp' = [op |-> "initiate_scan", returned |-> s]
  /\ UNCHANGED tasks
  /\ UNCHANGED run

\* ------------------------------------------------------------------ workers
\* A worker takes message k off its queue and runs the scanners, which return
\* a result blob, opaque to the orchestration: the run for message k returns
\* blob k, so that the results of different runs differ.  run_sast_scan first looks the scan up and raises when the
\* row is missing; run_dast_scan and run_sca_scan start scanning at once.
WorkerScan(k) ==
  /\ k \in DOMAIN tasks
  /\ tasks[k].pc = "queued"
  /\ IF tasks[k].name = "sast" /\ tasks[k].scan_id \notin DOMAIN records
     THEN tasks' = [tasks EXCEPT ![k].pc = "failed"]
     ELSE tasks' = [tasks EXCEPT ![k].pc = "scanned", ![k].result = k]
  /\ resp' = NoResp
  /\ UNCHANGED <<records, calls>>
  /\ UNCHANGED run

\* A failure handler that resets the row's findings.
WorkerFailClearsFindings(k) ==
  /\ k \in DOMAIN tasks
  /\ tasks[k].pc = "queued"
  /\ tasks' = [tasks EXCEPT ![k].pc = "failed"]
  /\ records' = IF tasks[k].scan_id \in DOMAIN records
                THEN [records EXCEPT ![tasks[k].scan_id].findings = <<>>]
                ELSE records
  /\ resp' = NoResp
  /\ UNCHANGED calls
  /\ UNCHANGED run

\* A scanner raises: `except Exception: logger.error(...); raise`.  The task
\* ends failed; nothing is written to the row.
WorkerFail(k) ==
  /\ k \in DOMAIN tasks
  /\ tasks[k].pc = "queued"
  /\ tasks' = [tasks EXCEPT ![k].pc = "failed"]
  /\ resp' = NoResp
  /\ UNCHANGED <<records, calls>>
  /\ UNCHANGED run

\* "Update scan results in database", first half: the worker's session queries
\* the row and holds its findings and raw_output.  `if scan_result:` skips the
\* update when there is no row.
WorkerRead(k) ==
  /\ k \in DOMAIN tasks
  /\ tasks[k].pc = "scanned"
  /\ LET s == tasks[k].scan_id IN
       IF s \in DOMAIN records
       THEN tasks' = [tasks EXCEPT
              ![k].pc = "read",
              ![k].snap = [findings |-> records[s].findings,
                           raw_output |-> records[s].raw_output]]
       ELSE tasks' = [tasks EXCEPT ![k].pc = "done"]
  /\ resp' = NoResp
  /\ UNCHANGED <<records, calls>>
  /\ UNCHANGED run

\* current_findings[<type>] = results; scan_result.findings = current_findings
MergedFindings(snapshot, t, b) == SetKey(snapshot, t, b)

\* A commit that also marks the row with the status word of the models.py
\* column comment.
WorkerCommitMarksCompleted(k) ==
  /\ k \in DOMAIN tasks
  /\ tasks[k].pc = "read"
  /\ records' = [records EXCEPT
       ![tasks[k].scan_id].findings =
          SetKey(tasks[k].snap.findings, tasks[k].name, tasks[k].result),
       ![tasks[k].scan_id].status = "completed"]
  /\ tasks' = [tasks EXCEPT ![k].pc = "done"]
  /\ resp' = NoResp
  /\ UNCHANGED calls
  /\ UNCHANGED run

\* Second half: the own key is set in the copies the session holds and the
\* commit writes both columns back.
WorkerCommit(k) ==
  /\ k \in DOMAIN tasks
  /\ tasks[k].pc = "read"
  /\ LET s == tasks[k].scan_id
         t == tasks[k].name
     IN records' = [records EXCEPT
          ![s].findings = MergedFindings(tasks[k].snap.findings, t, tasks[k].result),
          ![s].raw_output = SetKey(tasks[k].snap.raw_output, t, tasks[k].result)]
  /\ tasks' = [tasks EXCEPT ![k].pc = "done"]
  /\ resp' = NoResp
  /\ UNCHANGED calls
  /\ UNCHANGED run

\* ------------------------------------------------------------------ queries
\* The dict get_scan_status returns for a row.
StatusOf(s, r) ==
  [ op |-> "get_scan_status", scan_id |-> s, status |-> r.status,
    findings |-> r.findings, compliance_score |-> r.compliance_score ]

\* "Dict containing scan status and results if complete": findings withheld
\* until the scan is complete.
GetScanStatusResultsIfComplete(s) ==
  /\ resp' = IF s \in DOMAIN records
             THEN [StatusOf(s, records[s]) EXCEPT
                     !.findings = IF records[s].status = "complete" THEN @ ELSE <<>>]
             ELSE [op |-> "get_scan_status", scan_id |-> s, raised |-> "ValueError"]
  /\ UNCHANGED <<records, calls, tasks>>
  /\ UNCHANGED run

GetScanStatus(s) ==
  /\ resp' = IF s \in DOMAIN records
             THEN StatusOf(s, records[s])
             ELSE [op |-> "get_scan_status", scan_id |-> s, raised |-> "ValueError"]
  /\ UNCHANGED <<records, calls, tasks>>
  /\ UNCHANGED run

\* An aggregate_results that tests only that the row exists.
AggregateResultsAnyStatus(s) ==
  /\ IF s \in DOMAIN records
     THEN IF DOMAIN records[s].findings = {}
          THEN /\ records' = [records EXCEPT ![s].compliance_score = 100]
               /\ resp' = [op |-> "aggregate_results", returned |-> "None"]
          ELSE /\ records' = records
               /\ resp' = [op |-> "aggregate_results", raised |-> "AttributeError"]
     ELSE /\ records' = records
          /\ resp' = [op |-> "aggregate_results", returned |-> "None"]
  /\ UNCHANGED <<calls, tasks>>
  /\ UNCHANGED run

\* aggregate_results: returns at once unless the row exists with status
\* complete.  Every stored findings value is a worker's result dict, so the
\* inner loop walks its keys (strings) and finding.get raises; with no
\* findings at all max_score stays 0 and the score is 100.
AggregateResults(s) ==
  /\ IF s \in DOMAIN records /\ records[s].status = "complete"
     THEN IF DOMAIN records[s].findings = {}
          THEN /\ records' = [records EXCEPT ![s].compliance_score = 100]
               /\ resp' = [op |-> "aggregate_results", returned |-> "None"]
          ELSE /\ records' = records
               /\ resp' = [op |-> "aggregate_results", raised |-> "AttributeError"]
     ELSE /\ records' = records
          /\ resp' = [op |-> "aggregate_results", returned |-> "None"]
  /\ UNCHANGED <<calls, tasks>>
  /\ UNCHANGED run

Next ==
  \/ \E fw \in FrameworkIds, types \in ScanTypeLists, prio \in Priorities :
       InitiateScan(fw, types, prio)
  \/ \E s \in ScanIds : EnqueueStep(s)
  \/ \E s \in ScanIds : EnqueueFails(s)
  \/ \E s \in ScanIds : CommitInProgress(s)
  \/ \E k \in 1..MaxTasks : WorkerScan(k)
  \/ \E k \in 1..MaxTasks : WorkerFail(k)
  \/ \E k \in 1..MaxTasks : WorkerRead(k)
  \/ \E k \in 1..MaxTasks : WorkerCommit(k)
  \/ \E s \in ScanIds \cup {UnknownScanId} : GetScanStatus(s)
  \/ \E s \in ScanIds \cup {UnknownScanId} : AggregateResults(s)

Spec == Init /\ [][Next]_vars

\* One fair scheduling of the code: a call that has started runs on, a worker
\* that has a message runs on, the aggregator is invoked again and again, and
\* the caller keeps polling get_scan_status (scripts/test_sast_scan.py).
CallStep(s) == EnqueueStep(s) \/ EnqueueFails(s) \/ CommitInProgress(s)
WorkerStep(k) == WorkerScan(k) \/ WorkerFail(k) \/ WorkerRead(k) \/ WorkerCommit(k)

FairSpec ==
  /\ Spec
  /\ \A s \in ScanIds : WF_vars(CallStep(s))
  /\ \A k \in 1..MaxTasks : WF_vars(WorkerStep(k))
  /\ \A s \in ScanIds : WF_vars(AggregateResults(s))
  /\ \A s \in ScanIds : WF_vars(GetScanStatus(s))

\* ------------------------------------------------------------ redelivery
\* The broker delivers message k again after a worker has run it to the end
\* (the acknowledgement was lost): the task is back on its queue, and a worker
\* runs run_<type>_scan for it once more, from its first line.  The scanners
\* return for the same message the same result.
Redeliver(k) ==
  /\ k \in DOMAIN tasks
  /\ tasks[k].pc = "done"
  /\ tasks' = [tasks EXCEPT ![k].pc = "queued"]
  /\ resp' = NoResp
  /\ UNCHANGED <<records, calls>>
  /\ UNCHANGED run

RedeliverNext ==
  \/ Next
  \/ \E k \in 1..MaxTasks : Redeliver(k)

\* The system on a transport that delivers a message at least once.
RedeliverSpec == Init /\ [][RedeliverNext]_vars

\* --------------------------------------------------- framework registry
\* A Python str the code transforms or searches is the sequence of its
\* characters; a str the code only stores or compares is a TLA+ string.
UpperLetters == << "A","B","C","D","E","F","G","H","I","J","K","L","M",
                   "N","O","P","Q","R","S","T","U","V","W","X","Y","Z" >>
LowerLetters == << "a","b","c","d","e","f","g","h","i","j","k","l","m",
                   "n","o","p","q","r","s","t","u","v","w","x","y","z" >>

\* str.upper() and str.lower()
upper(s) ==
  [ i \in DOMAIN s |->
      IF \E n \in DOMAIN LowerLetters : LowerLetters[n] = s[i]
      THEN UpperLetters[CHOOSE n \in DOMAIN LowerLetters : LowerLetters[n] = s[i]]
      ELSE s[i] ]
lower(s) ==
  [ i \in DOMAIN s |->
      IF \E n \in DOMAIN UpperLetters : UpperLetters[n] = s[i]
      THEN LowerLetters[CHOOSE n \in DOMAIN UpperLetters : UpperLetters[n] = s[i]]
      ELSE s[i] ]

\* x in s, for two strs
Contains(x, s) ==
  \E i \in 0..(Len(s) - Len(x)) : SubSeq(s, i + 1, i + Len(x)) = x

\* dict.get(key, default)
Get(d, key, default) == IF key \in DOMAIN d THEN d[key] ELSE default

\* The three category tables, in the order of their dict literals.  key is the
\* dict key, the other fields are the CategoryDef.

OWASP_CATEGORIES ==
  <<
    [ key |-> <<"A","0","1","_","B","R","O","K","E","N","_","A","C","C","E","S","S","_","C","O","N","T","R","O","L">>,
      id |-> "A01", name |-> "Broken Access Control", priority |-> "High",
      checks |-> <<
        <<"a","c","c","e","s","s","_","c","o","n","t","r","o","l","_","b","y","p","a","s","s">>,
        <<"p","r","i","v","i","l","e","g","e","_","e","s","c","a","l","a","t","i","o","n">>,
        <<"a","u","t","h","o","r","i","z","a","t","i","o","n","_","f","l","a","w","s">>,
        <<"i","n","s","e","c","u","r","e","_","d","i","r","e","c","t","_","o","b","j","e","c","t","_","r","e","f","e","r","e","n","c","e","s">>,
        <<"c","o","r","s","_","m","i","s","c","o","n","f","i","g","u","r","a","t","i","o","n">>,
        <<"m","i","s","s","i","n","g","_","a","c","c","e","s","s","_","c","o","n","t","r","o","l","s">> >> ],
    [ key |-> <<"A","0","2","_","C","R","Y","P","T","O","G","R","A","P","H","I","C","_","F","A","I","L","U","R","E","S">>,
      id |-> "A02", name |-> "Cryptographic Failures", priority |-> "High",
      checks |-> <<
        <<"w","e","a","k","_","e","n","c","r","y","p","t","i","o","n">>,
        <<"h","a","r","d","c","o","d","e","d","_","s","e","c","r","e","t","s">>,
        <<"i","n","s","e","c","u","r","e","_","h","a","s","h","i","n","g">>,
        <<"e","x","p","o","s","e","d","_","c","r","e","d","e","n","t","i","a","l","s">>,
        <<"w","e","a","k","_","t","l","s">>,
        <<"i","n","s","u","f","f","i","c","i","e","n","t","_","d","a","t","a","_","p","r","o","t","e","c","t","i","o","n">> >> ],
    [ key |-> <<"A","0","3","_","I","N","J","E","C","T","I","O","N">>,
      id |-> "A03", name |-> "Injection", priority |-> "High",
      checks |-> <<
        <<"s","q","l","_","i","n","j","e","c","t","i","o","n">>,
        <<"o","s","_","c","o","m","m","a","n","d","_","i","n","j","e","c","t","i","o","n">>,
        <<"t","e","m","p","l","a","t","e","_","i","n","j","e","c","t","i","o","n">>,
        <<"x","p","a","t","h","_","i","n","j","e","c","t","i","o","n">>,
        <<"l","d","a","p","_","i","n","j","e","c","t","i","o","n">>,
        <<"c","o","d","e","_","i","n","j","e","c","t","i","o","n">> >> ],
    [ key |-> <<"A","0","4","_","I","N","S","E","C","U","R","E","_","D","E","S","I","G","N">>,
      id |-> "A04", name |-> "Insecure Design", priority |-> "High",
      checks |-> <<
        <<"m","i","s","s","i","n","g","_","s","e","c","u","r","i","t","y","_","c","o","n","t","r","o","l","s">>,
        <<"i","n","s","e","c","u","r","e","_","p","a","t","t","e","r","n","s">>,
        <<"r","a","t","e","_","l","i","m","i","t","i","n","g","_","a","b","s","e","n","t">>,
        <<"m","i","s","s","i","n","g","_","a","u","t","h","e","n","t","i","c","a","t","i","o","n">>,
        <<"w","e","a","k","_","s","e","s","s","i","o","n","_","m","a","n","a","g","e","m","e","n","t">> >> ],
    [ key |-> <<"A","0","5","_","S","E","C","U","R","I","T","Y","_","M","I","S","C","O","N","F","I","G","U","R","A","T","I","O","N">>,
      id |-> "A05", name |-> "Security Misconfiguration", priority |-> "High",
      checks |-> <<
        <<"i","n","s","e","c","u","r","e","_","d","e","f","a","u","l","t","s">>,
        <<"e","x","p","o","s","e","d","_","s","e","r","v","i","c","e","s">>,
        <<"m","i","s","s","i","n","g","_","s","e","c","u","r","i","t","y","_","h","e","a","d","e","r","s">>,
        <<"d","e","b","u","g","_","m","o","d","e","_","e","n","a","b","l","e","d">>,
        <<"d","e","f","a","u","l","t","_","c","r","e","d","e","n","t","i","a","l","s">>,
        <<"u","n","n","e","c","e","s","s","a","r","y","_","f","e","a","t","u","r","e","s","_","e","n","a","b","l","e","d">> >> ],
    [ key |-> <<"A","0","6","_","V","U","L","N","E","R","A","B","L","E","_","C","O","M","P","O","N","E","N","T","S">>,
      id |-> "A06", name |-> "Vulnerable and Outdated Components", priority |-> "High",
      checks |-> <<
        <<"o","u","t","d","a","t","e","d","_","d","e","p","e","n","d","e","n","c","i","e","s">>,
        <<"k","n","o","w","n","_","c","v","e","_","v","e","r","s","i","o","n","s">>,
        <<"v","u","l","n","e","r","a","b","l","e","_","l","i","b","r","a","r","i","e","s">>,
        <<"m","i","s","s","i","n","g","_","p","a","t","c","h","e","s">> >> ],
    [ key |-> <<"A","0","7","_","A","U","T","H","E","N","T","I","C","A","T","I","O","N","_","F","A","I","L","U","R","E","S">>,
      id |-> "A07", name |-> "Authentication Failures", priority |-> "High",
      checks |-> <<
        <<"w","e","a","k","_","a","u","t","h","e","n","t","i","c","a","t","i","o","n">>,
        <<"w","e","a","k","_","p","a","s","s","w","o","r","d","_","p","o","l","i","c","y">>,
        <<"s","e","s","s","i","o","n","_","f","i","x","a","t","i","o","n">>,
        <<"m","i","s","s","i","n","g","_","m","f","a">>,
        <<"b","r","o","k","e","n","_","a","u","t","h","e","n","t","i","c","a","t","i","o","n">>,
        <<"c","r","e","d","e","n","t","i","a","l","_","e","x","p","o","s","u","r","e">> >> ],
    [ key |-> <<"A","0","8","_","D","A","T","A","_","I","N","T","E","G","R","I","T","Y","_","F","A","I","L","U","R","E","S">>,
      id |-> "A08", name |-> "Software or Data Integrity Failures", priority |-> "High",
      checks |-> <<
        <<"i","n","s","e","c","u","r","e","_","d","e","s","e","r","i","a","l","i","z","a","t","i","o","n">>,
        <<"u","n","s","i","g","n","e","d","_","u","p","d","a","t","e","s">>,
        <<"m","i","s","s","i","n","g","_","s","i","g","n","a","t","u","r","e","s">>,
        <<"u","n","s","a","f","e","_","d","e","p","l","o","y","m","e","n","t">>,
        <<"c","o","d","e","_","t","a","m","p","e","r","i","n","g">> >> ],
    [ key |-> <<"A","0","9","_","L","O","G","G","I","N","G","_","M","O","N","I","T","O","R","I","N","G","_","F","A","I","L","U","R","E","S">>,
      id |-> "A09", name |-> "Logging and Monitoring Failures", priority |-> "Medium",
      checks |-> <<
        <<"m","i","s","s","i","n","g","_","l","o","g","g","i","n","g">>,
        <<"i","n","s","u","f","f","i","c","i","e","n","t","_","m","o","n","i","t","o","r","i","n","g">>,
        <<"i","n","a","d","e","q","u","a","t","e","_","a","l","e","r","t","i","n","g">>,
        <<"l","o","g","_","t","a","m","p","e","r","i","n","g">>,
        <<"n","o","_","a","u","d","i","t","_","t","r","a","i","l">> >> ],
    [ key |-> <<"A","1","0","_","E","X","C","E","P","T","I","O","N","A","L","_","C","O","N","D","I","T","I","O","N","S">>,
      id |-> "A10", name |-> "Mishandling of Exceptional Conditions", priority |-> "Medium",
      checks |-> <<
        <<"u","n","s","a","f","e","_","e","r","r","o","r","_","h","a","n","d","l","i","n","g">>,
        <<"s","e","n","s","i","t","i","v","e","_","i","n","f","o","_","i","n","_","e","r","r","o","r","s">>,
        <<"u","n","h","a","n","d","l","e","d","_","e","x","c","e","p","t","i","o","n","s">>,
        <<"p","o","o","r","_","e","r","r","o","r","_","r","e","c","o","v","e","r","y">>,
        <<"r","e","s","o","u","r","c","e","_","e","x","h","a","u","s","t","i","o","n">> >> ]
  >>

CIS_CATEGORIES ==
  <<
    [ key |-> <<"C","I","S","_","A","P","P","_","S","O","F","T","W","A","R","E","_","S","E","C","U","R","I","T","Y">>,
      id |-> "CIS-AS", name |-> "Application Software Security", priority |-> "High",
      checks |-> <<
        <<"i","n","p","u","t","_","v","a","l","i","d","a","t","i","o","n">>,
        <<"s","e","c","u","r","e","_","a","p","i","_","d","e","s","i","g","n">>,
        <<"d","e","p","e","n","d","e","n","c","y","_","s","c","a","n","n","i","n","g">>,
        <<"s","e","c","u","r","e","_","c","o","d","e","_","p","r","a","c","t","i","c","e","s">>,
        <<"b","u","f","f","e","r","_","o","v","e","r","f","l","o","w","_","p","r","e","v","e","n","t","i","o","n">>,
        <<"f","o","r","m","a","t","_","s","t","r","i","n","g","_","p","r","e","v","e","n","t","i","o","n">> >> ],
    [ key |-> <<"C","I","S","_","A","C","C","E","S","S","_","C","O","N","T","R","O","L","_","M","A","N","A","G","E","M","E","N","T">>,
      id |-> "CIS-AC", name |-> "Access Control Management", priority |-> "High",
      checks |-> <<
        <<"r","o","l","e","_","b","a","s","e","d","_","a","c","c","e","s","s">>,
        <<"l","e","a","s","t","_","p","r","i","v","i","l","e","g","e">>,
        <<"s","e","s","s","i","o","n","_","t","i","m","e","o","u","t">>,
        <<"p","r","i","v","i","l","e","g","e","_","e","s","c","a","l","a","t","i","o","n","_","p","r","o","t","e","c","t","i","o","n">>,
        <<"e","n","d","p","o","i","n","t","_","a","u","t","h","o","r","i","z","a","t","i","o","n">>,
        <<"r","e","s","o","u","r","c","e","_","a","c","c","e","s","s","_","c","o","n","t","r","o","l","s">> >> ]
  >>

NIST_CATEGORIES ==
  <<
    [ key |-> <<"N","I","S","T","_","I","A">>,
      id |-> "NIST-IA", name |-> "Identification and Authentication (IA)", priority |-> "High",
      checks |-> <<
        <<"u","s","e","r","_","i","d","e","n","t","i","f","i","c","a","t","i","o","n">>,
        <<"a","u","t","h","e","n","t","i","c","a","t","i","o","n","_","s","t","r","e","n","g","t","h">>,
        <<"p","a","s","s","w","o","r","d","_","r","e","q","u","i","r","e","m","e","n","t","s">>,
        <<"m","f","a","_","e","n","f","o","r","c","e","m","e","n","t">>,
        <<"s","e","s","s","i","o","n","_","s","e","c","u","r","i","t","y">>,
        <<"f","a","i","l","e","d","_","l","o","g","i","n","_","a","t","t","e","m","p","t","s">>,
        <<"p","a","s","s","w","o","r","d","_","e","x","p","i","r","a","t","i","o","n">>,
        <<"a","c","c","o","u","n","t","_","l","o","c","k","o","u","t">> >> ],
    [ key |-> <<"N","I","S","T","_","A","C">>,
      id |-> "NIST-AC", name |-> "Access Control (AC)", priority |-> "High",
      checks |-> <<
        <<"a","c","c","e","s","s","_","c","o","n","t","r","o","l","_","p","o","l","i","c","y">>,
        <<"l","e","a","s","t","_","p","r","i","v","i","l","e","g","e","_","e","n","f","o","r","c","e","m","e","n","t">>,
        <<"r","o","l","e","_","b","a","s","e","d","_","a","c","c","e","s","s">>,
        <<"s","e","p","a","r","a","t","i","o","n","_","o","f","_","d","u","t","i","e","s">>,
        <<"a","c","c","e","s","s","_","e","n","f","o","r","c","e","m","e","n","t">>,
        <<"b","o","u","n","d","a","r","y","_","p","r","o","t","e","c","t","i","o","n">> >> ],
    [ key |-> <<"N","I","S","T","_","A","U">>,
      id |-> "NIST-AU", name |-> "Audit and Accountability (AU)", priority |-> "Medium",
      checks |-> <<
        <<"a","u","d","i","t","_","l","o","g","g","i","n","g">>,
        <<"l","o","g","_","p","r","o","t","e","c","t","i","o","n">>,
        <<"l","o","g","_","r","e","t","e","n","t","i","o","n">>,
        <<"a","u","d","i","t","_","r","e","v","i","e","w">>,
        <<"a","c","c","o","u","n","t","a","b","i","l","i","t","y">>,
        <<"t","a","m","p","e","r","_","d","e","t","e","c","t","i","o","n">> >> ],
    [ key |-> <<"N","I","S","T","_","S","I">>,
      id |-> "NIST-SI", name |-> "System and Information Integrity (SI)", priority |-> "High",
      checks |-> <<
        <<"m","a","l","w","a","r","e","_","p","r","o","t","e","c","t","i","o","n">>,
        <<"s","e","c","u","r","i","t","y","_","u","p","d","a","t","e","s">>,
        <<"s","y","s","t","e","m","_","m","o","n","i","t","o","r","i","n","g">>,
        <<"i","n","f","o","r","m","a","t","i","o","n","_","i","n","t","e","g","r","i","t","y">>,
        <<"f","l","a","w","_","r","e","m","e","d","i","a","t","i","o","n">>,
        <<"s","e","c","u","r","i","t","y","_","t","e","s","t","i","n","g">> >> ],
    [ key |-> <<"N","I","S","T","_","S","C">>,
      id |-> "NIST-SC", name |-> "System and Communications Protection (SC)", priority |-> "High",
      checks |-> <<
        <<"e","n","c","r","y","p","t","i","o","n","_","i","n","_","t","r","a","n","s","i","t">>,
        <<"e","n","c","r","y","p","t","i","o","n","_","a","t","_","r","e","s","t">>,
        <<"k","e","y","_","m","a","n","a","g","e","m","e","n","t">>,
        <<"c","r","y","p","t","o","g","r","a","p","h","i","c","_","c","o","n","t","r","o","l","s">>,
        <<"s","e","c","u","r","e","_","p","r","o","t","o","c","o","l","s">>,
        <<"b","o","u","n","d","a","r","y","_","p","r","o","t","e","c","t","i","o","n">> >> ]
  >>

\* FrameworkType and FRAMEWORK_MAPPINGS
FRAMEWORK_MAPPINGS ==
  << [ value |-> <<"O","W","A","S","P">>, categories |-> OWASP_CATEGORIES ],
     [ value |-> <<"C","I","S">>, categories |-> CIS_CATEGORIES ],
     [ value |-> <<"N","I","S","T">>, categories |-> NIST_CATEGORIES ] >>

\* A lookup that falls back to the OWASP table for a name it does not know.
get_categories_default_owasp(framework_name) ==
  LET hits == { n \in DOMAIN FRAMEWORK_MAPPINGS :
                  FRAMEWORK_MAPPINGS[n].value = upper(framework_name) }
  IN  IF hits = {} THEN OWASP_CATEGORIES
      ELSE FRAMEWORK_MAPPINGS[CHOOSE n \in hits : TRUE].categories

\* FrameworkType(framework_name.upper()); a ValueError gives the empty dict.
get_categories_for_framework(framework_name) ==
  LET hits == { n \in DOMAIN FRAMEWORK_MAPPINGS :
                  FRAMEWORK_MAPPINGS[n].value = upper(framework_name) }
  IN  IF hits = {} THEN <<>>
      ELSE FRAMEWORK_MAPPINGS[CHOOSE n \in hits : TRUE].categories

\* ------------------------------------------------------------- classifier
\* test_mappings of _map_bandit_to_categories
test_mappings ==
  <<
    [ key |-> <<"h","a","r","d","c","o","d","e","d","_","p","a","s","s","w","o","r","d">>,
      value |-> <<"h","a","r","d","c","o","d","e","d","_","s","e","c","r","e","t","s">> ],
    [ key |-> <<"h","a","r","d","c","o","d","e","d","_","s","q","l","_","s","t","r","i","n","g">>,
      value |-> <<"s","q","l","_","i","n","j","e","c","t","i","o","n">> ],
    [ key |-> <<"h","a","r","d","c","o","d","e","d","_","t","e","m","p","_","f","i","l","e">>,
      value |-> <<"i","n","s","e","c","u","r","e","_","d","e","f","a","u","l","t","s">> ],
    [ key |-> <<"a","s","s","e","r","t","_","u","s","e","d">>,
      value |-> <<"s","e","c","u","r","i","t","y","_","m","i","s","c","o","n","f","i","g","u","r","a","t","i","o","n">> ],
    [ key |-> <<"e","x","e","c","_","u","s","e","d">>,
      value |-> <<"c","o","d","e","_","i","n","j","e","c","t","i","o","n">> ],
    [ key |-> <<"e","v","a","l","_","u","s","e","d">>,
      value |-> <<"c","o","d","e","_","i","n","j","e","c","t","i","o","n">> ],
    [ key |-> <<"s","u","b","p","r","o","c","e","s","s">>,
      value |-> <<"o","s","_","c","o","m","m","a","n","d","_","i","n","j","e","c","t","i","o","n">> ],
    [ key |-> <<"s","t","a","r","t","_","p","r","o","c","e","s","s","_","w","i","t","h","_","a","_","s","h","e","l","l">>,
      value |-> <<"o","s","_","c","o","m","m","a","n","d","_","i","n","j","e","c","t","i","o","n">> ],
    [ key |-> <<"s","t","a","r","t","_","p","r","o","c","e","s","s","_","w","i","t","h","_","p","a","r","t","i","a","l","_","p","a","t","h">>,
      value |-> <<"o","s","_","c","o","m","m","a","n","d","_","i","n","j","e","c","t","i","o","n">> ],
    [ key |-> <<"s","u","s","p","i","c","i","o","u","s","_","n","o","n","_","c","r","y","p","t","o","g","r","a","p","h","i","c","_","r","a","n","d","o","m","_","u","s","a","g","e">>,
      value |-> <<"w","e","a","k","_","e","n","c","r","y","p","t","i","o","n">> ],
    [ key |-> <<"u","s","e","_","o","f","_","i","n","p","u","t","_","i","n","s","t","e","a","d","_","o","f","_","r","a","w","_","i","n","p","u","t">>,
      value |-> <<"i","n","p","u","t","_","v","a","l","i","d","a","t","i","o","n">> ],
    [ key |-> <<"i","m","p","o","r","t","_","t","e","l","n","e","t","l","i","b">>,
      value |-> <<"i","n","s","e","c","u","r","e","_","p","r","o","t","o","c","o","l","s">> ],
    [ key |-> <<"t","r","y","_","e","x","c","e","p","t","_","p","a","s","s">>,
      value |-> <<"u","n","s","a","f","e","_","e","r","r","o","r","_","h","a","n","d","l","i","n","g">> ],
    [ key |-> <<"e","x","c","e","p","t","_","p","a","s","s">>,
      value |-> <<"u","n","s","a","f","e","_","e","r","r","o","r","_","h","a","n","d","l","i","n","g">> ],
    [ key |-> <<"b","a","d","_","f","i","l","e","_","p","e","r","m","i","s","s","i","o","n","s">>,
      value |-> <<"i","n","s","e","c","u","r","e","_","d","e","f","a","u","l","t","s">> ],
    [ key |-> <<"f","l","a","s","k","_","d","e","b","u","g","_","t","r","u","e">>,
      value |-> <<"d","e","b","u","g","_","m","o","d","e","_","e","n","a","b","l","e","d">> ],
    [ key |-> <<"i","n","s","e","c","u","r","e","_","h","a","s","h","_","f","u","n","c","t","i","o","n">>,
      value |-> <<"w","e","a","k","_","e","n","c","r","y","p","t","i","o","n">> ],
    [ key |-> <<"i","n","s","e","c","u","r","e","_","r","a","n","d","o","m","_","f","u","n","c","t","i","o","n">>,
      value |-> <<"w","e","a","k","_","e","n","c","r","y","p","t","i","o","n">> ],
    [ key |-> <<"p","a","r","a","m","i","k","o","_","c","a","l","l","s">>,
      value |-> <<"w","e","a","k","_","e","n","c","r","y","p","t","i","o","n">> ],
    [ key |-> <<"r","e","q","u","e","s","t","_","w","i","t","h","_","n","o","_","c","e","r","t","_","v","a","l","i","d","a","t","i","o","n">>,
      value |-> <<"i","n","s","e","c","u","r","e","_","p","r","o","t","o","c","o","l","s">> ],
    [ key |-> <<"u","s","e","_","o","f","_","m","a","k","o","_","t","e","m","p","l","a","t","e","s">>,
      value |-> <<"t","e","m","p","l","a","t","e","_","i","n","j","e","c","t","i","o","n">> ],
    [ key |-> <<"j","i","n","j","a","2","_","a","u","t","o","e","s","c","a","p","e","_","f","a","l","s","e">>,
      value |-> <<"t","e","m","p","l","a","t","e","_","i","n","j","e","c","t","i","o","n">> ]
  >>

\* The if/elif chain of _map_semgrep_to_categories, in its order.
semgrep_patterns ==
  <<
    [ any |-> << <<"s","q","l">>, <<"i","n","j","e","c","t","i","o","n">> >>,
      check_type |-> <<"s","q","l","_","i","n","j","e","c","t","i","o","n">> ],
    [ any |-> << <<"a","u","t","h">>, <<"p","a","s","s","w","o","r","d">>, <<"c","r","e","d","e","n","t","i","a","l">> >>,
      check_type |-> <<"w","e","a","k","_","a","u","t","h","e","n","t","i","c","a","t","i","o","n">> ],
    [ any |-> << <<"c","r","y","p","t","o">>, <<"e","n","c","r","y","p","t">>, <<"h","a","s","h">> >>,
      check_type |-> <<"w","e","a","k","_","e","n","c","r","y","p","t","i","o","n">> ],
    [ any |-> << <<"a","c","c","e","s","s">>, <<"c","o","n","t","r","o","l">>, <<"p","e","r","m","i","s","s","i","o","n">> >>,
      check_type |-> <<"a","c","c","e","s","s","_","c","o","n","t","r","o","l","_","b","y","p","a","s","s">> ],
    [ any |-> << <<"x","x","e">>, <<"x","m","l">>, <<"p","a","r","s","e">> >>,
      check_type |-> <<"i","n","j","e","c","t","i","o","n">> ],
    [ any |-> << <<"x","s","s">>, <<"s","c","r","i","p","t">>, <<"h","t","m","l">> >>,
      check_type |-> <<"i","n","j","e","c","t","i","o","n">> ],
    [ any |-> << <<"c","o","m","m","a","n","d">>, <<"e","x","e","c">>, <<"o","s">> >>,
      check_type |-> <<"o","s","_","c","o","m","m","a","n","d","_","i","n","j","e","c","t","i","o","n">> ],
    [ any |-> << <<"e","r","r","o","r">>, <<"e","x","c","e","p","t","i","o","n">>, <<"l","o","g","g","i","n","g">> >>,
      check_type |-> <<"u","n","s","a","f","e","_","e","r","r","o","r","_","h","a","n","d","l","i","n","g">> ],
    [ any |-> << <<"d","e","f","a","u","l","t">>, <<"c","o","n","f","i","g">>, <<"s","e","t","t","i","n","g">> >>,
      check_type |-> <<"i","n","s","e","c","u","r","e","_","d","e","f","a","u","l","t","s">> ]
  >>

\* The loop of map_scanner_finding_to_categories: the ids of the categories
\* whose checks hold finding_type, in table order.
RECURSIVE matching_categories(_, _)
matching_categories(categories, finding_type) ==
  IF categories = <<>> THEN <<>>
  ELSE LET category_def == Head(categories)
       IN  (IF finding_type \in Range(category_def.checks)
            THEN <<category_def.id>> ELSE <<>>)
             \o matching_categories(Tail(categories), finding_type)

\* A loop that stops at the first category that declares the check.
map_scanner_finding_first_match(framework_name, finding_type) ==
  LET all == matching_categories(get_categories_for_framework(framework_name),
                                 finding_type)
  IN  IF all = <<>> THEN <<>> ELSE <<Head(all)>>

map_scanner_finding_to_categories(framework_name, finding_type) ==
  matching_categories(get_categories_for_framework(framework_name), finding_type)

\* _map_bandit_to_categories: the lowered "type" through test_mappings, the
\* lowered type itself when the table has no such key.
bandit_check_type(finding) ==
  LET issue_type == lower(Get(finding, "type", <<>>))
      hits == { n \in DOMAIN test_mappings : test_mappings[n].key = issue_type }
  IN  IF hits = {} THEN issue_type
      ELSE test_mappings[CHOOSE n \in hits : TRUE].value

map_bandit_to_categories(framework_name, finding) ==
  map_scanner_finding_to_categories(framework_name, bandit_check_type(finding))

\* _map_semgrep_to_categories: the first branch one of whose words occurs in
\* the lowered "rule_id", the lowered rule_id itself when none does.
semgrep_check_type(finding) ==
  LET rule_id == lower(Get(finding, "rule_id", <<>>))
      hits == { n \in DOMAIN semgrep_patterns :
                  \E x \in Range(semgrep_patterns[n].any) : Contains(x, rule_id) }
  IN  IF hits = {} THEN rule_id
      ELSE semgrep_patterns[CHOOSE n \in hits : \A m \in hits : n <= m].check_type

map_semgrep_to_categories(framework_name, finding) ==
  map_scanner_finding_to_categories(framework_name, semgrep_check_type(finding))

\* The dict categorize_findings appends under each category id.
categorized_entry(tool, finding) ==
  [ tool |-> tool, finding |-> finding,
    severity |-> upper(Get(finding, "severity", <<"u","n","k","n","o","w","n">>)),
    file |-> Get(finding, "file", "None"),
    line |-> Get(finding, "line", "None") ]

\* for category_id in categories: categorized[category_id].append(entry)
RECURSIVE append_under(_, _, _)
append_under(categorized, categories, entry) ==
  IF categories = <<>> THEN categorized
  ELSE append_under(
         SetKey(categorized, Head(categories),
                Append(Get(categorized, Head(categories), <<>>), entry)),
         Tail(categories), entry)

\* One of the two loops of categorize_findings, over one tool's list.
RECURSIVE process_findings(_, _, _, _)
process_findings(categorized, framework_name, tool, list) ==
  IF list = <<>> THEN categorized
  ELSE LET finding == Head(list)
           categories == IF tool = "bandit"
                         THEN map_bandit_to_categories(framework_name, finding)
                         ELSE map_semgrep_to_categories(framework_name, finding)
       IN  process_findings(
             append_under(categorized, categories, categorized_entry(tool, finding)),
             framework_name, tool, Tail(list))

categorize_findings(framework_name, findings) ==
  process_findings(
    process_findings(<<>>, framework_name, "bandit", Get(findings, "bandit", <<>>)),
    framework_name, "semgrep", Get(findings, "semgrep", <<>>))

\* ----------------------------------------------------------------- scorer
\* Scores are kept in hundredths of a point: 100.0 is 10000 and 97.34 is 9734.
CRITICAL == <<"C","R","I","T","I","C","A","L">>
HIGH == <<"H","I","G","H">>
MEDIUM == <<"M","E","D","I","U","M">>
LOW == <<"L","O","W">>

\* len([f for f in findings if f["severity"] == severity])
severity_count(findings, severity) ==
  Len(SelectSeq(findings, LAMBDA f : f.severity = severity))

\* A score without the max(0.0, ...) of line 217.
deducted_score_no_floor(critical, high, medium, low) ==
  LET score == 10000 - critical * 2500 - high * 1500 - medium * 800 - low * 300
  IN  IF score > 10000 THEN 10000 ELSE score

\* A score whose HIGH findings are added instead of deducted.
deducted_score_high_added(critical, high, medium, low) ==
  LET score == 10000 - critical * 2500 + high * 1500 - medium * 800 - low * 300
      capped == IF score > 10000 THEN 10000 ELSE score
  IN  IF capped < 0 THEN 0 ELSE capped

\* score = 100.0 less the four deductions, then max(0.0, min(100.0, score));
\* round(score, 2) leaves a whole number of points as it is.
deducted_score(critical, high, medium, low) ==
  LET score == 10000 - critical * 2500 - high * 1500 - medium * 800 - low * 300
      capped == IF score > 10000 THEN 10000 ELSE score
  IN  IF capped < 0 THEN 0 ELSE capped

\* The dict calculate_category_scores stores for one category.
category_score(category_def, findings) ==
  LET critical == severity_count(findings, CRITICAL)
      high == severity_count(findings, HIGH)
      medium == severity_count(findings, MEDIUM)
      low == severity_count(findings, LOW)
  IN  [ id |-> category_def.id,
        category |-> category_def.name,
        score |-> deducted_score(critical, high, medium, low),
        total_issues |-> critical + high + medium + low,
        critical |-> critical, high |-> high, medium |-> medium, low |-> low,
        priority |-> category_def.priority ]

\* calculate_category_scores: one entry per category of the framework, in
\* table order, keyed by the category's id.
calculate_category_scores(framework_name, categorized_findings) ==
  LET categories == get_categories_for_framework(framework_name)
  IN  [ n \in DOMAIN categories |->
          category_score(categories[n],
                         Get(categorized_findings, categories[n].id, <<>>)) ]

\* Every priority weighs what Medium weighs.
priority_weight_flat(score_data) == 35

\* Medium weighs what High weighs.
priority_weight_medium_as_high(score_data) ==
  LET priority == Get(score_data, "priority", "Medium")
  IN  IF priority = "Low" THEN 15 ELSE 50

\* priority_weights.get(score_data.get("priority", "Medium"), 0.35), in
\* hundredths.
priority_weight(score_data) ==
  LET priority == Get(score_data, "priority", "Medium")
  IN  IF priority = "High" THEN 50
      ELSE IF priority = "Medium" THEN 35
      ELSE IF priority = "Low" THEN 15
      ELSE 35

\* The loop of calculate_overall_score: weighted_sum and total_weight after
\* the entries of category_scores, taken in the dict's order.
RECURSIVE weighted_sum(_)
weighted_sum(category_scores) ==
  IF category_scores = <<>> THEN 0
  ELSE Get(Head(category_scores), "score", 0) * priority_weight(Head(category_scores))
         + weighted_sum(Tail(category_scores))

RECURSIVE total_weight(_)
total_weight(category_scores) ==
  IF category_scores = <<>> THEN 0
  ELSE priority_weight(Head(category_scores)) + total_weight(Tail(category_scores))

\* calculate_overall_score: the values round(weighted_sum / total_weight, 2)
\* can take.  The sums are binary floating point, 0.35 and 0.15 have no exact
\* binary form, and the error of the sums depends on the order of the
\* additions: a quotient that lies exactly between two hundredths comes out
\* as either of them; any other quotient comes out as the nearest hundredth.
calculate_overall_score(category_scores) ==
  LET ws == weighted_sum(category_scores)
      tw == total_weight(category_scores)
  IN  IF tw = 0 THEN {10000}
      ELSE LET q == ws \div tw
               r == ws % tw
           IN  IF 2 * r < tw THEN {q}
               ELSE IF 2 * r > tw THEN {q + 1}
               ELSE {q, q + 1}

\* ------------------------------------------------------- recommendations
\* The if/elif chains of get_category_recommendations, in their order: the
\* word looked for in framework_name, then the words looked for in the
\* dict key of the category.
recommendation_table ==
  <<
    [ framework |-> <<"O","W","A","S","P">>,
      branches |-> <<
        [ word |-> <<"A","0","1">>,
          recs |-> << "Implement role-based access control (RBAC) throughout the application",
                      "Enforce principle of least privilege for all users and service accounts",
                      "Regularly audit and test access controls" >> ],
        [ word |-> <<"A","0","2">>,
          recs |-> << "Use strong, up-to-date encryption standards (TLS 1.3+, AES-256)",
                      "Implement secure key management practices",
                      "Never hardcode secrets or credentials in code" >> ],
        [ word |-> <<"A","0","3">>,
          recs |-> << "Use parameterized queries and prepared statements",
                      "Implement input validation and sanitization",
                      "Apply principle of least privilege to database accounts" >> ],
        [ word |-> <<"A","0","7">>,
          recs |-> << "Enforce strong password policies with complexity requirements",
                      "Implement multi-factor authentication (MFA)",
                      "Use secure session management with timeouts" >> ] >> ],
    [ framework |-> <<"C","I","S">>,
      branches |-> <<
        [ word |-> <<"A","C">>,
          recs |-> << "Implement and enforce role-based access control (RBAC)",
                      "Configure session timeouts and re-authentication",
                      "Log and monitor all access attempts" >> ],
        [ word |-> <<"A","S">>,
          recs |-> << "Conduct regular security code reviews",
                      "Implement static and dynamic security testing",
                      "Scan for vulnerable dependencies regularly" >> ] >> ],
    [ framework |-> <<"N","I","S","T">>,
      branches |-> <<
        [ word |-> <<"I","A">>,
          recs |-> << "Strengthen authentication mechanisms with MFA or equivalent",
                      "Enforce password complexity and expiration policies",
                      "Implement account lockout after failed attempts" >> ],
        [ word |-> <<"A","C">>,
          recs |-> << "Establish and enforce access control policy",
                      "Implement least privilege for all accounts",
                      "Review and audit access controls periodically" >> ],
        [ word |-> <<"S","I">>,
          recs |-> << "Keep systems and software up to date with security patches",
                      "Implement endpoint protection and malware scanning",
                      "Monitor systems for security anomalies" >> ] >> ]
  >>
\* The recs list of one category that has findings: the first chain whose
\* word occurs in framework_name, in it the first branch whose word occurs
\* in category_id (the dict key), and the f-string of line 340 when that
\* leaves recs empty.
category_recs(framework_name, category_id, category_def) ==
  LET chains == { n \in DOMAIN recommendation_table :
                    Contains(recommendation_table[n].framework, framework_name) }
      branches ==
        IF chains = {} THEN <<>>
        ELSE recommendation_table[CHOOSE n \in chains : \A m \in chains : n <= m].branches
      hits == { n \in DOMAIN branches : Contains(branches[n].word, category_id) }
      recs == IF hits = {} THEN <<>>
              ELSE branches[CHOOSE n \in hits : \A m \in hits : n <= m].recs
  IN  IF recs = <<>>
      THEN << <<"Review ", category_def.name, " requirements and address findings">> >>
      ELSE recs

get_category_recommendations(framework_name, categorized_findings) ==
  LET categories == get_categories_for_framework(framework_name)
  IN  [ id \in { categories[n].id : n \in DOMAIN categories } |->
          LET category_def == categories[CHOOSE n \in DOMAIN categories :
                                           categories[n].id = id]
          IN  IF Get(categorized_findings, id, <<>>) = <<>>
              THEN <<"No issues found in this category.">>
              ELSE category_recs(framework_name, category_def.key, category_def) ]

\* --------------------------------------------- uses of CategoryCheckRunner
\* Findings per call, entries per category, repeats of one severity, entries
\* per category-score map.
MaxFindings == 2
MaxEntries == 3
MaxRepeat == 5
MaxScores == 3

BoundedSeq(S, n) == UNION { [1..k -> S] : k \in 0..n }

\* framework_name arguments: the three names, one in lower case, one unknown.
FrameworkNames ==
  { <<"O","W","A","S","P">>, <<"o","w","a","s","p">>, <<"C","I","S">>,
    <<"N","I","S","T">>, <<"P","C","I">> }

\* Bandit findings: a rule code as type; the B608 sample of
\* scripts/direct_test_sast_scan.py; a test name in mixed case; a check name
\* two NIST categories declare; a finding without severity; a test name that
\* maps to a CIS check.
BanditFindings ==
  { [ type |-> <<"B","6","0","8">>,
      severity |-> <<"c","r","i","t","i","c","a","l">> ],
    [ id |-> "B608",
      type |-> <<"h","a","r","d","c","o","d","e","d","_","s","q","l">>,
      severity |-> <<"c","r","i","t","i","c","a","l">>,
      file |-> "src/api/endpoints.py", line |-> 105 ],
    [ type |-> <<"H","a","r","d","c","o","d","e","d","_","S","Q","L","_","S","t","r","i","n","g">>,
      severity |-> <<"H","i","g","h">> ],
    [ type |-> <<"b","o","u","n","d","a","r","y","_","p","r","o","t","e","c","t","i","o","n">>,
      severity |-> <<"m","e","d","i","u","m">> ],
    [ type |-> <<"e","v","a","l","_","u","s","e","d">> ],
    [ type |-> <<"u","s","e","_","o","f","_","i","n","p","u","t","_","i","n","s","t","e","a","d","_","o","f","_","r","a","w","_","i","n","p","u","t">>,
      severity |-> <<"l","o","w">> ] }

\* Semgrep findings: two rule ids that hold a word of the chain, and a
\* finding as SemgrepScanner builds it (the rule under "type", no "rule_id").
SemgrepFindings ==
  { [ rule_id |-> <<"p","y","t","h","o","n",".","s","q","l","a","l","c","h","e","m","y",".","s","q","l","i">>,
      severity |-> <<"E","R","R","O","R">> ],
    [ rule_id |-> <<"W","e","a","k","-","P","a","s","s","w","o","r","d">>,
      severity |-> <<"w","a","r","n","i","n","g">> ],
    [ type |-> <<"g","e","n","e","r","i","c",".","s","e","c","r","e","t","s">>,
      severity |-> <<"I","N","F","O">> ] }

\* A finding of the third tool of the workers (dast_worker stores its scanner's
\* output under "zap"), whose type is a check name as the tables spell it.
ZapFindings ==
  { [ type |-> <<"s","q","l","_","i","n","j","e","c","t","i","o","n">>,
      severity |-> <<"h","i","g","h">> ] }

\* findings arguments: a tool with no finding has no key.
FindingsInputs ==
  { (IF b = <<>> THEN <<>> ELSE [bandit |-> b])
      @@ (IF s = <<>> THEN <<>> ELSE [semgrep |-> s])
      @@ (IF z = <<>> THEN <<>> ELSE [zap |-> z]) :
      <<b, s, z>> \in { p \in BoundedSeq(BanditFindings, MaxFindings)
                               \X BoundedSeq(SemgrepFindings, MaxFindings)
                               \X BoundedSeq(ZapFindings, MaxFindings) :
                          Len(p[1]) + Len(p[2]) + Len(p[3]) <= MaxFindings } }

\* Severities of categorized entries, as .upper() leaves them.
UNKNOWN == <<"U","N","K","N","O","W","N">>
Severities == {CRITICAL, HIGH, MEDIUM, LOW, UNKNOWN}
SeverityLists ==
  BoundedSeq(Severities, MaxEntries)
    \cup { [i \in 1..n |-> severity] : n \in 0..MaxRepeat, severity \in Severities }

\* categorized_findings arguments: one category of the framework holds a list
\* of entries.
CategorizedInputs(framework_name) ==
  LET categories == get_categories_for_framework(framework_name)
  IN  { IF list = <<>> THEN <<>>
        ELSE categories[n].id :>
               [ i \in DOMAIN list |->
                   categorized_entry("bandit", [severity |-> list[i]]) ] :
        n \in DOMAIN categories, list \in SeverityLists }

\* category_scores arguments: score and priority of up to MaxScores entries.
ScoreValues == {0, 1800, 1900, 5000, 10000}
ScoreMaps ==
  BoundedSeq([score : ScoreValues, priority : {"High", "Medium", "Low"}], MaxScores)

\* A caller starts at categorize_findings (scripts/direct_test_sast_scan.py),
\* or hands its own dict to calculate_category_scores or to
\* calculate_overall_score.
ScoreInit ==
  /\ records = <<>>
  /\ calls = <<>>
  /\ tasks = <<>>
  /\ resp = NoResp
  /\ \/ \E framework_name \in FrameworkNames, findings \in FindingsInputs :
          run = [ phase |-> "start", framework_name |-> framework_name,
                  findings |-> findings ]
     \/ \E framework_name \in FrameworkNames :
          \E categorized \in CategorizedInputs(framework_name) :
            run = [ phase |-> "categorized", framework_name |-> framework_name,
                    categorized |-> categorized ]
     \/ \E category_scores \in ScoreMaps :
          run = [ phase |-> "scored", category_scores |-> category_scores ]

CategorizeFindings ==
  /\ run.phase = "start"
  /\ run' = [ phase |-> "categorized" ] @@
            [ categorized |-> categorize_findings(run.framework_name, run.findings) ]
            @@ run
  /\ UNCHANGED <<records, calls, tasks, resp>>

CalculateCategoryScores ==
  /\ run.phase = "categorized"
  /\ run' = [ phase |-> "scored" ] @@
            [ category_scores |->
                calculate_category_scores(run.framework_name, run.categorized) ]
            @@ run
  /\ UNCHANGED <<records, calls, tasks, resp>>

CalculateOverallScore ==
  /\ run.phase = "scored"
  /\ \E overall_score \in calculate_overall_score(run.category_scores) :
       run' = [ phase |-> "overall" ] @@ [ overall_score |-> overall_score ] @@ run
  /\ UNCHANGED <<records, calls, tasks, resp>>

GetCategoryRecommendations ==
  /\ run.phase = "overall"
  /\ "categorized" \in DOMAIN run
  /\ run' = [ phase |-> "done" ] @@
            [ recommendations |->
                get_category_recommendations(run.framework_name, run.categorized) ]
            @@ run
  /\ UNCHANGED <<records, calls, tasks, resp>>

ScoreNext ==
  \/ CategorizeFindings
  \/ CalculateCategoryScores
  \/ CalculateOverallScore
  \/ GetCategoryRecommendations

ScoreSpec == ScoreInit /\ [][ScoreNext]_vars

\* ------------------------------------------------------------------ claims
StatusValues == {"pending", "in_progress", "complete", "failed"}
TerminalStatuses == {"complete", "failed"}

\* The messages sent for scan s, and the recognised types its call asked for.
TasksOf(s) == {k \in DOMAIN tasks : tasks[k].scan_id = s}
RequestedKnown(s) == Range(calls[s].scan_types) \cap KnownTypes
\* Task k went through its merge: it read the row and committed.
Merged(k) == tasks[k].pc = "done" /\ tasks[k].scan_id \in DOMAIN records

\* C1: every analysis type whose task finished its merge has an entry in the
\* scan record's findings map (no lost update under any interleaving).
C1_NoLostUpdate ==
  \A k \in DOMAIN tasks :
    Merged(k) => tasks[k].name \in DOMAIN records[tasks[k].scan_id].findings

\* C2: once every requested analysis type of a scan has merged, the record's
\* status eventually becomes complete.
AllMerged(s) ==
  /\ s \in DOMAIN calls
  /\ calls[s].pc = "returned"
  /\ RequestedKnown(s) # {}
  /\ \A t \in RequestedKnown(s) :
       \E k \in TasksOf(s) : tasks[k].name = t /\ Merged(k)

C2_EventuallyComplete ==
  \A s \in ScanIds :
    AllMerged(s) ~> (s \in DOMAIN records /\ records[s].status = "complete")

\* C3: when a task of a scan has failed (its worker raised) and the scan's
\* initiate_scan call is over, the record's status is failed.
C3_FailedTaskFailsScan ==
  \A k \in DOMAIN tasks :
    (tasks[k].pc = "failed" /\ ~CallActive(tasks[k].scan_id))
      => records[tasks[k].scan_id].status = "failed"

\* C4: the step in which a task fails leaves every record's findings as they
\* were, and a get_scan_status answer for a scan with a failed task carries the
\* record's findings and its current status.
HasFailedTask(s) == \E k \in TasksOf(s) : tasks[k].pc = "failed"

AllowedMoves ==
  { <<"pending", "in_progress">>, <<"pending", "failed">>,
    <<"in_progress", "complete">>, <<"in_progress", "failed">> }

C6_TerminalRecordFrozen ==
  [][ \A s \in DOMAIN records :
        records[s].status \in TerminalStatuses
          => /\ s \in DOMAIN records'
             /\ records'[s].findings = records[s].findings
             /\ records'[s].compliance_score = records[s].compliance_score ]_vars

\* C7: a call with a framework id that does not exist has raised, and there is
\* no record and no task for its scan id.
C7_UnknownFrameworkWritesNothing ==
  \A s \in DOMAIN calls :
    calls[s].framework_id \notin Frameworks
      => /\ calls[s].pc = "raised"
         /\ s \notin DOMAIN records
         /\ TasksOf(s) = {}

C7_Witness ==
  \E s \in DOMAIN calls :
    calls[s].framework_id \notin Frameworks /\ resp.op = "initiate_scan"

\* C8: a call that raised after its record was created leaves the record
\* failed (in the step that raises and ever after), and that step hands the
\* error to the caller.
C8_EnqueueFailureMarksFailed ==
  [][ /\ \A s \in DOMAIN calls' \cap DOMAIN records' :
           calls'[s].pc = "raised" => records'[s].status = "failed"
      /\ \A s \in DOMAIN calls :
           (calls[s].pc = "try" /\ calls'[s].pc = "raised")
             => (resp'.op = "initiate_scan" /\ "raised" \in DOMAIN resp') ]_vars

\* C8 witness: the second send_task of a call raised after the first message
\* was sent.
C8_Witness ==
  \E s \in DOMAIN calls \cap DOMAIN records :
    calls[s].pc = "raised" /\ TasksOf(s) # {} /\ resp.op = "initiate_scan"

\* C9 as stated: a call that returned has sent exactly one message for every
\* analysis type named in the requested list, with its scan id and priority,
\* and none for another type; the number of messages is the number of types
\* the list names.
OneTaskPerRequestedKnown(s) ==
  /\ \A k \in TasksOf(s) :
       tasks[k].name \in RequestedKnown(s) /\ tasks[k].priority = calls[s].priority
  /\ \A t \in RequestedKnown(s) :
       Cardinality({k \in TasksOf(s) : tasks[k].name = t}) = 1

framework_name_of(framework_id) == <<"O","W","A","S","P">>

\* C11: once every requested analysis type of a scan has merged, the scan
\* completes with the Scorer's result on its record: the status becomes
\* complete and the stored score is calculate_overall_score of
\* calculate_category_scores of categorize_findings of the merged findings.
C11_CompletedScanStoresScorerResult ==
  \A s \in ScanIds :
    AllMerged(s) ~>
      ( /\ s \in DOMAIN records
        /\ records[s].status = "complete"
        /\ LET framework_name == framework_name_of(records[s].framework_id)
               categorized == categorize_findings(framework_name, records[s].findings)
           IN  records[s].compliance_score * 100
                 \in calculate_overall_score(
                       calculate_category_scores(framework_name, categorized)) )

\* The run went through categorize_findings.
Categorized ==
  run.phase \in {"categorized", "scored", "overall", "done"} /\ "findings" \in DOMAIN run

\* The check set of the category with this id, and the ids of a framework.
ChecksOf(framework_name, id) ==
  UNION { Range(c.checks) :
            c \in { d \in Range(get_categories_for_framework(framework_name)) :
                      d.id = id } }
CategoryIds(framework_name) ==
  { c.id : c \in Range(get_categories_for_framework(framework_name)) }

\* The entries a category is due: one for each bandit finding, then one for
\* each semgrep finding, whose canonical identifier is in its check set.
EntriesDue(framework_name, findings, id) ==
  LET checks == ChecksOf(framework_name, id)
      bandit == SelectSeq(Get(findings, "bandit", <<>>),
                  LAMBDA f : bandit_check_type(f) \in checks)
      semgrep == SelectSeq(Get(findings, "semgrep", <<>>),
                   LAMBDA f : semgrep_check_type(f) \in checks)
  IN  [ i \in DOMAIN bandit |-> categorized_entry("bandit", bandit[i]) ]
        \o [ i \in DOMAIN semgrep |-> categorized_entry("semgrep", semgrep[i]) ]

Scored == Categorized /\ run.phase \in {"scored", "overall", "done"}

\* The entry of calculate_category_scores for one category id.
ScoreEntry(category_scores, id) ==
  category_scores[CHOOSE n \in DOMAIN category_scores : category_scores[n].id = id]

\* A bandit finding of rule B608 with severity critical: the rule code is its
\* type, or its id as in the sample of scripts/direct_test_sast_scan.py.
IsCriticalB608(finding) ==
  /\ \/ Get(finding, "type", <<>>) = <<"B","6","0","8">>
     \/ Get(finding, "id", "") = "B608"
  /\ Get(finding, "severity", <<>>) = <<"c","r","i","t","i","c","a","l">>

\* C13: for OWASP and the single bandit finding B608 of severity critical,
\* categorize_findings yields exactly one entry, under A03 with severity
\* CRITICAL, and the score of A03 is 75.0.
C13_B608ScoresA03At75 ==
  ( /\ Scored
    /\ run.framework_name = <<"O","W","A","S","P">>
    /\ DOMAIN run.findings = {"bandit"}
    /\ Len(run.findings.bandit) = 1
    /\ IsCriticalB608(run.findings.bandit[1]) )
    => /\ DOMAIN run.categorized = {"A03"}
       /\ Len(run.categorized["A03"]) = 1
       /\ run.categorized["A03"][1].severity = CRITICAL
       /\ ScoreEntry(run.category_scores, "A03").score = 7500

\* The run went through calculate_category_scores, on the dict
\* categorize_findings returned or on the caller's own.
HasScores ==
  run.phase \in {"scored", "overall", "done"} /\ "categorized" \in DOMAIN run

\* How many entries of a list have this severity.
CountOf(findings, severity) ==
  Cardinality({ i \in DOMAIN findings : findings[i].severity = severity })

\* clamp(100 - 25*critical - 15*high - 8*medium - 3*low, 0, 100), in hundredths
ClampedScore(findings) ==
  LET raw == 10000 - 2500 * CountOf(findings, CRITICAL) - 1500 * CountOf(findings, HIGH)
                   - 800 * CountOf(findings, MEDIUM) - 300 * CountOf(findings, LOW)
  IN  IF raw < 0 THEN 0 ELSE IF raw > 10000 THEN 10000 ELSE raw

C15_MoreSevereFindingsNeverRaiseScore ==
  HasScores =>
    LET categories == get_categories_for_framework(run.framework_name)
    IN  \A n \in DOMAIN categories, severity \in {CRITICAL, HIGH} :
          LET findings == Get(run.categorized, categories[n].id, <<>>)
              finding == categorized_entry("bandit", [severity |-> severity])
          IN  category_score(categories[n], Append(findings, finding)).score
                <= run.category_scores[n].score

\* A scored category that holds findings and still has points to lose: one
\* more critical finding lowers its score.
C15_Witness ==
  /\ HasScores
  /\ \E n \in DOMAIN run.category_scores :
       LET category_def == get_categories_for_framework(run.framework_name)[n]
           findings == Get(run.categorized, category_def.id, <<>>)
       IN  /\ findings # <<>>
           /\ category_score(category_def,
                Append(findings, categorized_entry("bandit", [severity |-> CRITICAL]))).score
                < run.category_scores[n].score

\* C16: a categorized finding of severity UNKNOWN deducts nothing from its
\* category's score and is counted in the category's total_issues.
C16_UnknownCountsAsIssue ==
  HasScores =>
    LET categories == get_categories_for_framework(run.framework_name)
    IN  \A n \in DOMAIN categories :
          LET findings == Get(run.categorized, categories[n].id, <<>>)
              known == SelectSeq(findings, LAMBDA f : f.severity # UNKNOWN)
              entry == run.category_scores[n]
          IN  /\ entry.score = category_score(categories[n], known).score
              /\ entry.total_issues
                   = category_score(categories[n], known).total_issues
                       + CountOf(findings, UNKNOWN)

\* The run went through calculate_overall_score.
HasOverall == run.phase \in {"overall", "done"}

\* The weights the claim names, in hundredths.
WeightOf(priority) ==
  CASE priority = "High" -> 50 [] priority = "Medium" -> 35 [] priority = "Low" -> 15

\* The sum of f over the indices in I.
RECURSIVE SumOver(_, _)
SumOver(I, f) ==
  IF I = {} THEN 0
  ELSE LET i == CHOOSE j \in I : TRUE IN f[i] + SumOver(I \ {i}, f)

\* sum(score * w) and sum(w) over the entries of a category-score map.
ScoreTimesWeight(category_scores) ==
  SumOver(DOMAIN category_scores,
          [ n \in DOMAIN category_scores |->
              category_scores[n].score * WeightOf(category_scores[n].priority) ])
SumOfWeights(category_scores) ==
  SumOver(DOMAIN category_scores,
          [ n \in DOMAIN category_scores |-> WeightOf(category_scores[n].priority) ])

\* C17 as stated: calculate_overall_score returns 100 for the empty map and
\* otherwise the weighted mean sum(score*w)/sum(w) itself, with w 0.50, 0.35
\* and 0.15 for High, Medium and Low; the result is within [0, 100].
C17_OverallIsWeightedMean ==
  HasOverall =>
    /\ run.overall_score \in 0..10000
    /\ IF run.category_scores = <<>> THEN run.overall_score = 10000
       ELSE run.overall_score * SumOfWeights(run.category_scores)
              = ScoreTimesWeight(run.category_scores)

\* C17 amended: calculate_overall_score returns 100 for the empty map and
\* otherwise the weighted mean rounded to two decimals (a hundredth at most
\* 0.005 away from the mean); the result is within [0, 100].
C17_OverallIsRoundedWeightedMean ==
  HasOverall =>
    /\ run.overall_score \in 0..10000
    /\ IF run.category_scores = <<>> THEN run.overall_score = 10000
       ELSE LET tw == SumOfWeights(run.category_scores)
                off == run.overall_score * tw - ScoreTimesWeight(run.category_scores)
            IN  2 * off <= tw /\ 2 * off >= 0 - tw

\* An overall score of a map that holds a Low entry beside entries of another
\* priority and whose weighted mean is not a whole number of hundredths.
C17_Witness ==
  /\ HasOverall
  /\ \E n, m \in DOMAIN run.category_scores :
       /\ run.category_scores[n].priority = "Low"
       /\ run.category_scores[m].priority # "Low"
  /\ ScoreTimesWeight(run.category_scores) % SumOfWeights(run.category_scores) # 0

\* The same entries in every order.
Orderings(category_scores) ==
  { [ n \in DOMAIN category_scores |-> category_scores[p[n]] ] :
      p \in Permutations(DOMAIN category_scores) }

\* C18: calculate_overall_score has one result for a set of category-score
\* entries, whatever the order of the entries: the result returned is the
\* only one any ordering of the map gives.
C18_OverallIsOrderIndependent ==
  (HasOverall /\ Len(run.category_scores) <= MaxScores)
    => \A reordered \in Orderings(run.category_scores) :
         calculate_overall_score(reordered) = {run.overall_score}

\* The category scores of an OWASP run: A03 at 75, the nine others at 100.
OwaspA03At75 ==
  /\ "framework_name" \in DOMAIN run
  /\ run.framework_name = <<"O","W","A","S","P">>
  /\ Len(run.category_scores) = 10
  /\ \A n \in DOMAIN run.category_scores :
       run.category_scores[n].score
         = IF run.category_scores[n].id = "A03" THEN 7500 ELSE 10000

\* C19 as stated: with A03 at 75 and the nine other OWASP categories at 100,
\* calculate_overall_score returns 97.5.
C19_OwaspOverallIs9750 ==
  (HasOverall /\ OwaspA03At75) => run.overall_score = 9750

\* C19 amended: with A03 at 75 and the nine other OWASP categories at 100,
\* calculate_overall_score returns 97.34 (A09 and A10 are of Medium priority).
C19_OwaspOverallIs9734 ==
  (HasOverall /\ OwaspA03At75) => run.overall_score = 9734

C19_Witness ==
  /\ HasOverall
  /\ OwaspA03At75
  /\ { c.priority : c \in Range(run.category_scores) } = {"High", "Medium"}

\* The run went through get_category_recommendations.
HasRecommendations == run.phase = "done"

\* The chain and the branch of the guidance table a category id stands for:
\* OWASP A01, A02, A03, A07; CIS AC, AS; NIST IA, AC, SI.
TableEntryOf ==
  [ A01 |-> <<1, 1>>, A02 |-> <<1, 2>>, A03 |-> <<1, 3>>, A07 |-> <<1, 4>> ]
    @@ ("CIS-AC" :> <<2, 1>>) @@ ("CIS-AS" :> <<2, 2>>)
    @@ ("NIST-IA" :> <<3, 1>>) @@ ("NIST-AC" :> <<3, 2>>) @@ ("NIST-SI" :> <<3, 3>>)

\* C20: get_category_recommendations returns one entry per category of the
\* framework: the single "no issues found" entry for a category without
\* findings, the fixed guidance list of its table prefix for a category with
\* findings that has one, and exactly one generic string naming the category
\* for a category with findings and no table entry.
C20_RecommendationPerCategory ==
  HasRecommendations =>
    LET categories == get_categories_for_framework(run.framework_name)
    IN  /\ DOMAIN run.recommendations = CategoryIds(run.framework_name)
        /\ \A n \in DOMAIN categories :
             LET id == categories[n].id
                 recs == run.recommendations[id]
             IN  IF Get(run.categorized, id, <<>>) = <<>>
                 THEN recs = <<"No issues found in this category.">>
                 ELSE IF id \in DOMAIN TableEntryOf
                 THEN recs = recommendation_table[TableEntryOf[id][1]]
                               .branches[TableEntryOf[id][2]].recs
                 ELSE /\ Len(recs) = 1
                      /\ recs[1] = <<"Review ", categories[n].name,
                                     " requirements and address findings">>

\* ---- C21
\* The types of the tasks enqueued for scan s.
EnqueuedTypes(s) == {tasks[k].name : k \in TasksOf(s)}

MergeStep(k) ==
  /\ k \in DOMAIN tasks
  /\ tasks[k].pc = "read"
  /\ tasks'[k].pc = "done"
  /\ tasks[k].scan_id \in DOMAIN records

\* C22: a merge for analysis type T changes only the entry under key T of
\* the row's findings: every entry under another key is in the committed row
\* after the merge with the value it had immediately before it.
C22_MergeKeepsOtherEntries ==
  [][ \A k \in 1..MaxTasks :
        MergeStep(k) =>
          LET s == tasks[k].scan_id
          IN \A key \in DOMAIN records[s].findings \ {tasks[k].name} :
               /\ key \in DOMAIN records'[s].findings
               /\ records'[s].findings[key] = records[s].findings[key] ]_vars

\* ---- C23
\* The row already holds, under the type of message k, the result of an
\* earlier delivery of message k.
AlreadyMerged(k) ==
  LET s == tasks[k].scan_id
  IN /\ s \in DOMAIN records
     /\ tasks[k].name \in DOMAIN records[s].findings
     /\ records[s].findings[tasks[k].name] = tasks[k].result

CanonicalId(tool, finding) ==
  IF tool = "bandit" THEN bandit_check_type(finding)
  ELSE IF tool = "semgrep" THEN semgrep_check_type(finding)
  ELSE lower(Get(finding, "type", <<>>))

\* C24: categorize_findings classifies every finding of every tool key of
\* its findings argument: a finding whose canonical identifier is in a
\* category's check set has an entry in that category's list, whichever tool
\* produced it.
C24_EveryToolIsClassified ==
  Categorized =>
    \A tool \in DOMAIN run.findings :
      \A i \in DOMAIN run.findings[tool] :
        \A id \in CategoryIds(run.framework_name) :
          CanonicalId(tool, run.findings[tool][i]) \in ChecksOf(run.framework_name, id)
            => \E j \in DOMAIN Get(run.categorized, id, <<>>) :
                 /\ run.categorized[id][j].tool = tool
                 /\ run.categorized[id][j].finding = run.findings[tool][i]

\* ---- C25
\* The tool reported a severity for the finding.
HasSeverity(finding) == "severity" \in DOMAIN finding

\* C25: every entry of categorize_findings has a severity in {CRITICAL, HIGH,
\* MEDIUM, LOW, UNKNOWN}: a recognised severity string, in any case, becomes
\* its upper-case value, and a missing or unrecognised one becomes UNKNOWN.
C25_SeverityIsNormalised ==
  Categorized =>
    \A id \in DOMAIN run.categorized :
      \A j \in DOMAIN run.categorized[id] :
        LET entry == run.categorized[id][j]
            recognised == HasSeverity(entry.finding)
                            /\ upper(entry.finding.severity) \in Severities
        IN  /\ entry.severity \in Severities
            /\ recognised => entry.severity = upper(entry.finding.severity)
            /\ ~recognised => entry.severity = UNKNOWN

\* ---- C26
\* The raw identifier of a finding (bandit: its type, semgrep: its rule id)
\* and the table of its tool (semgrep has none), both in lower case as the
\* mappers lower them.
RawId(tool, finding) ==
  lower(Get(finding, IF tool = "bandit" THEN "type" ELSE "rule_id", <<>>))
TableOf(tool) == IF tool = "bandit" THEN test_mappings ELSE <<>>

\* The order the claim states: the table entry of the tool if there is one,
\* otherwise the check of the first keyword set one of whose keywords occurs
\* in the raw identifier or in the message, otherwise the raw identifier.
ClassifyInOrder(tool, finding) ==
  LET raw == RawId(tool, finding)
      message == lower(Get(finding, "message", <<>>))
      table == TableOf(tool)
      entries == { n \in DOMAIN table : table[n].key = raw }
      sets == { n \in DOMAIN semgrep_patterns :
                  \E x \in Range(semgrep_patterns[n].any) :
                    Contains(x, raw) \/ Contains(x, message) }
  IN  IF entries # {} THEN table[CHOOSE n \in entries : TRUE].value
      ELSE IF sets # {}
           THEN semgrep_patterns[CHOOSE n \in sets : \A m \in sets : n <= m].check_type
           ELSE raw

\* C26: a finding of either tool is classified in one fixed order (table
\* entry, else first keyword set matching identifier or message, else the
\* raw identifier): its entry is under the categories whose check set holds
\* the identifier that order gives, and under no other.
C26_ClassifyInFixedOrder ==
  Categorized =>
    \A tool \in {"bandit", "semgrep"} \cap DOMAIN run.findings :
      \A i \in DOMAIN run.findings[tool] :
        \A id \in CategoryIds(run.framework_name) :
          (ClassifyInOrder(tool, run.findings[tool][i]) \in ChecksOf(run.framework_name, id))
            <=> \E j \in DOMAIN Get(run.categorized, id, <<>>) :
                  /\ run.categorized[id][j].tool = tool
                  /\ run.categorized[id][j].finding = run.findings[tool][i]

\* ---- C27
\* No row has status complete.
NoneComplete == \A s \in DOMAIN records : records[s].status # "complete"

\* C27: aggregate_results writes compliance_score only to a row that exists
\* with status complete, and writes nothing else; called for an unknown scan
\* id or for a row that is pending, in_progress or failed it changes nothing
\* and raises no error.
C27_AggregateOnlyWhenComplete ==
  [][ resp'.op = "aggregate_results" =>
        /\ \A s \in DOMAIN records :
             records'[s] # records[s] =>
               /\ records[s].status = "complete"
               /\ records'[s] = [records[s] EXCEPT
                                   !.compliance_score = records'[s].compliance_score]
        /\ DOMAIN records' = DOMAIN records
        /\ UNCHANGED <<calls, tasks>>
        /\ NoneComplete => (records' = records /\ "raised" \notin DOMAIN resp') ]_vars

\* aggregate_results has just returned None while the row is in_progress or
\* failed: the score is the 0.0 initiate_scan wrote.
C27_Witness ==
  /\ resp = [op |-> "aggregate_results", returned |-> "None"]
  /\ \E s \in DOMAIN records :
       /\ records[s].status \in {"in_progress", "failed"}
       /\ records[s].compliance_score = 0

\* ---- C28
\* The name is OWASP, CIS or NIST in some case.
KnownFramework(framework_name) ==
  upper(framework_name) \in { <<"O","W","A","S","P">>, <<"C","I","S">>, <<"N","I","S","T">> }

\* C28: for a framework name that is not OWASP, CIS or NIST in any case, and
\* for any findings, categorize_findings returns the empty map,
\* calculate_category_scores returns the empty map (also for the map
\* categorize_findings makes of the same findings for OWASP) and
\* calculate_overall_score of it returns 100.0.
C28_UnknownFrameworkGivesEmptyMaps ==
  ("framework_name" \in DOMAIN run /\ ~KnownFramework(run.framework_name)) =>
    /\ "categorized" \in DOMAIN run => run.categorized = <<>>
    /\ "category_scores" \in DOMAIN run => run.category_scores = <<>>
    /\ "overall_score" \in DOMAIN run => run.overall_score = 10000
    /\ "findings" \in DOMAIN run =>
         calculate_category_scores(
           run.framework_name,
           categorize_findings(<<"O","W","A","S","P">>, run.findings)) = <<>>

\* A run for the name PCI with two bandit findings, one of which every known
\* framework's tables classify, has come to its overall score.
C28_Witness ==
  /\ run.phase \in {"overall", "done"}
  /\ "findings" \in DOMAIN run
  /\ ~KnownFramework(run.framework_name)
  /\ Len(Get(run.findings, "bandit", <<>>)) = 2
  /\ \E i \in 1..2 : bandit_check_type(run.findings.bandit[i])
                       = <<"s","q","l","_","i","n","j","e","c","t","i","o","n">>
  /\ run.categorized = <<>>
  /\ run.category_scores = <<>>
  /\ run.overall_score = 10000

\* ---- C29
\* The call is for a framework that exists and its list holds none of sast,
\* dast, sca.
NothingToEnqueue(s) ==
  /\ s \in DOMAIN calls
  /\ calls[s].framework_id \in Frameworks
  /\ RequestedKnown(s) = {}

\* C29: initiate_scan called for an existing framework with a list that holds
\* none of sast, dast, sca (the empty list included) enqueues no task, does
\* not raise, ends by returning the scan id, and leaves the row in_progress;
\* from then on the row stays in_progress whatever the system does.
C29_EmptyScanStaysInProgress ==
  /\ [](\A s \in ScanIds :
          NothingToEnqueue(s) =>
            /\ TasksOf(s) = {}
            /\ calls[s].pc # "raised"
            /\ calls[s].pc = "returned" => records[s].status = "in_progress")
  /\ [][ \A s \in ScanIds :
           (CallActive(s) /\ NothingToEnqueue(s) /\ ~CallActive(s)')
             => resp' = [op |-> "initiate_scan", returned |-> s] ]_vars

\* The call for a list of one unrecognised name has returned, and the caller
\* polls get_scan_status: the row is in_progress and has no task.
C29_Witness ==
  \E s \in DOMAIN calls :
    /\ calls[s].scan_types = <<"zap">>
    /\ calls[s].pc = "returned"
    /\ TasksOf(s) = {}
    /\ "status" \in DOMAIN resp /\ resp.status = "in_progress"

\* ---- C30
\* initiate_scan commits status in_progress for scan s in this step.
InProgressStep(s) ==
  /\ CallActive(s)
  /\ s \in DOMAIN calls' /\ calls'[s].pc = "returned"

\* C30: when a worker has committed its merge for a scan before
\* initiate_scan commits in_progress, the status write changes the status
\* field only: the merged findings are in the row afterwards, and the status
\* is in_progress.
C30_StatusWriteKeepsFindings ==
  [][ \A s \in ScanIds :
        InProgressStep(s) =>
          /\ records'[s] = [records[s] EXCEPT !.status = "in_progress"]
          /\ \A k \in TasksOf(s) :
               (Merged(k) /\ tasks[k].name \in DOMAIN records[s].findings) =>
                 /\ tasks[k].name \in DOMAIN records'[s].findings
                 /\ records'[s].findings[tasks[k].name]
                      = records[s].findings[tasks[k].name] ]_vars

\* initiate_scan has just returned and the row already holds the findings a
\* worker merged while the call was still enqueueing.
C30_Witness ==
  \E s \in DOMAIN records :
    /\ resp = [op |-> "initiate_scan", returned |-> s]
    /\ records[s].status = "in_progress"
    /\ \E k \in TasksOf(s) :
         /\ Merged(k)
         /\ tasks[k].name \in DOMAIN records[s].findings
         /\ records[s].findings[tasks[k].name] = tasks[k].result

====
